---- MODULE Spec2Model ----
(***************************************************************************)
(* Model of Samples/py/pcloud_compute.py: depth images of one HoloLens     *)
(* depth camera are unprojected to point clouds, written as .obj files,    *)
(* optionally read back from a previous run and optionally merged.         *)
(*                                                                         *)
(* Units.  A decoded distance is kept in millimetres (the integer the      *)
(* sensor stores; the code divides it by 1000.0).  A point coordinate is   *)
(* kept in units of 1e-5 m, one decimal digit finer than the "%.4f" text   *)
(* of an .obj file, whose numbers are kept in units of 1e-4 m.  A float    *)
(* that is not a number is a record of kind "inf" or "nan".                *)
(***************************************************************************)
EXTENDS Integers, Sequences, FiniteSets, TLC

VARIABLES
    args,               \* the argparse namespace (line 148 assigns to it)
    pc,                 \* position of the program
    camera,             \* main: the camera folder chosen
    fs,                 \* the output files on disk: path -> lines
    dirs,               \* the output folders created
    sensor_poses,       \* process_folder: the pose table, or none
    depth_range,        \* process_folder: the depth thresholds
    depth_paths,        \* process_folder: the frames of the window, in order
    i_path,             \* process_folder: 1-based position in depth_paths
    points_merged,      \* process_folder: the merged buffer
    table,              \* process_folder: us, vs (none until parsed)
    frame,              \* process_folder: the locals of the current frame
    returned,           \* main: the value process_folder returned
    log,                \* history: the steps of this run, in order
    startFs,            \* history: fs when this run started
    startDirs,          \* history: dirs when this run started
    runs,               \* history: number of runs started
    reads,              \* history: the camera folders this run read from
    argv,               \* the command line of this run
    gp                  \* the call of get_points under SpecGetPoints

vars == <<args, pc, camera, fs, dirs, sensor_poses, depth_range, depth_paths,
          i_path, points_merged, table, frame, returned, log, startFs, startDirs,
          runs, reads, argv, gp>>

----------------------------------------------------------------------------
(* Bounds of the model *)

MaxStart == 3
MaxCount == 2
MaxRuns == 2

----------------------------------------------------------------------------
(* Floats, points and sequences *)

Num(v) == [k |-> "num", v |-> v]
Inf == [k |-> "inf", v |-> 0]
NaN == [k |-> "nan", v |-> 0]

isinf(x) == x.k = "inf"

NaNPoint == [nan |-> TRUE, c |-> <<0, 0, 0>>]
Pt(a, b, c) == [nan |-> FALSE, c |-> <<a, b, c>>]

RECURSIVE Flatten(_)
Flatten(ss) == IF ss = <<>> THEN <<>> ELSE Head(ss) \o Flatten(Tail(ss))

RECURSIVE Newton(_, _)
Newton(n, r) ==
    LET r2 == (r + n \div r) \div 2
    IN  IF r2 >= r THEN r ELSE Newton(n, r2)

\* floor of the square root of n >= 1
ISqrt(n) == Newton(n, n)

----------------------------------------------------------------------------
(* Lines 13-15: depth ranges, in millimetres *)

SHORT_THROW_RANGE == <<20, 3000>>
LONG_THROW_RANGE == <<1000, 4000>>

----------------------------------------------------------------------------
(* Lines 18-22: save_obj.  A file is its sequence of lines; a "v" line     *)
(* holds three numbers printed with "%.4f", kept in units of 1e-4 m.       *)

HeaderLine == [tag |-> "#", nan |-> FALSE, c |-> <<0, 0, 0>>]

\* "%.4f" % x: x (1e-5 m) rounded to four decimals (1e-4 m)
Fmt4(x) == IF x >= 0 THEN (x + 5) \div 10 ELSE 0 - ((5 - x) \div 10)

VertexLine(p) ==
    IF p.nan THEN [tag |-> "v", nan |-> TRUE, c |-> <<0, 0, 0>>]
    ELSE [tag |-> "v", nan |-> FALSE,
          c |-> <<Fmt4(p.c[1]), Fmt4(p.c[2]), Fmt4(p.c[3])>>]

save_obj(points) ==
    <<HeaderLine>> \o [n \in 1..Len(points) |-> VertexLine(points[n])]

(* Lines 24-54: read_obj.  Lines starting with '#' are skipped, "v" lines *)
(* fill the rows 0..i-1, every other line is ignored, and the rows never  *)
(* filled are cut off.                                                     *)

ParsePoint(line) ==
    IF line.nan THEN NaNPoint
    ELSE Pt(line.c[1] * 10, line.c[2] * 10, line.c[3] * 10)

read_obj(lines) ==
    LET IsV(l) == l.tag = "v"
        rows == SelectSeq(lines, IsV)
    IN  [n \in 1..Len(rows) |-> ParsePoint(rows[n])]

----------------------------------------------------------------------------
(* Lines 56-66: parse_projection_bin.  The file is a sequence of floats,  *)
(* u and v interleaved; each list is reshaped to (w, h) and transposed,   *)
(* and reshape raises when the list does not hold w*h elements.            *)

XList(projection) ==
    [n \in 1..((Len(projection) + 1) \div 2) |-> projection[2 * n - 1]]
YList(projection) ==
    [n \in 1..(Len(projection) \div 2) |-> projection[2 * n]]

ReshapeT(list, w, h) == [i \in 1..h |-> [j \in 1..w |-> list[(j - 1) * h + i]]]

parse_projection_bin(projection, w, h) ==
    IF Len(XList(projection)) = w * h /\ Len(YList(projection)) = w * h
    THEN [ok |-> TRUE, built |-> TRUE, w |-> w, h |-> h,
          us |-> ReshapeT(XList(projection), w, h),
          vs |-> ReshapeT(YList(projection), w, h)]
    ELSE [ok |-> FALSE, built |-> FALSE, w |-> 0, h |-> 0, us |-> <<>>, vs |-> <<>>]

NoTable == [ok |-> TRUE, built |-> FALSE, w |-> 0, h |-> 0, us |-> <<>>, vs |-> <<>>]

----------------------------------------------------------------------------
(* Lines 69-72: pgm2distance.  The 16-bit samples are byte-swapped; the   *)
(* result is the distance in millimetres (the code divides by 1000.0).     *)

ByteSwap16(raw) == (raw % 256) * 256 + (raw \div 256)

pgm2distance(img) == [i \in 1..Len(img) |-> [j \in 1..Len(img[i]) |-> ByteSwap16(img[i][j])]]

Height(img) == Len(img)
Width(img) == IF Len(img) = 0 THEN 0 ELSE Len(img[1])

----------------------------------------------------------------------------
(* Lines 75-108: get_points *)

Eye3 == <<<<1, 0, 0>>, <<0, 1, 0>>, <<0, 0, 1>>>>
Zero3 == <<0, 0, 0>>

MatVec(R, p) == [r \in 1..3 |-> R[r][1] * p[1] + R[r][2] * p[2] + R[r][3] * p[3]]
VecAdd(p, q) == [r \in 1..3 |-> p[r] + q[r]]
Transpose(R) == [r \in 1..3 |-> [c \in 1..3 |-> R[c][r]]]

NoPose == [none |-> TRUE, R |-> Eye3, t |-> Zero3]

\* lines 78-82: R, t of the pose, or the identity when there is none
PoseRt(cam2world) ==
    IF ~cam2world.none THEN [R |-> cam2world.R, t |-> cam2world.t]
    ELSE [R |-> Eye3, t |-> Zero3]

\* mutant of lines 95-96: the interval is taken as open
Discarded_open(x, y, D, range) ==
    isinf(x) \/ isinf(y) \/ D <= range[1] \/ D >= range[2]

\* lines 95-96: the pixels that are skipped
Discarded(x, y, D, range) ==
    isinf(x) \/ isinf(y) \/ D < range[1] \/ D > range[2]

\* lines 93, 100: z = -D / sqrt(x*x + y*y + 1); point = (x, y, 1) * z.
\* D in millimetres, the point in 1e-5 m; a nan ray makes every coordinate nan.
CameraPoint(x, y, D) ==
    IF x.k = "nan" \/ y.k = "nan" THEN NaNPoint
    ELSE LET zmag == (D * 100 * 100) \div ISqrt((x.v * x.v + y.v * y.v + 1) * 10000)
             z == 0 - zmag
         IN  Pt(x.v * z, y.v * z, z)

\* line 103: point = R . point + t
ToWorld(Rt, p) ==
    IF p.nan THEN NaNPoint
    ELSE LET q == VecAdd(MatVec(Rt.R, p.c), Rt.t) IN Pt(q[1], q[2], q[3])

\* lines 87-106: what one pixel appends
PixelPoints(x, y, D, Rt, range) ==
    IF Discarded(x, y, D, range) THEN <<>>
    ELSE <<ToWorld(Rt, CameraPoint(x, y, D))>>

\* us[i, j] raises IndexError when the image is larger than the ray table
InTable(img, us) ==
    \/ Height(img) = 0 \/ Width(img) = 0
    \/ /\ Height(img) <= Len(us)
       /\ Len(us) > 0
       /\ Width(img) <= Len(us[1])

get_points(img, us, vs, cam2world, range) ==
    LET dist == pgm2distance(img)
        Rt == PoseRt(cam2world)
        Row(i) == Flatten([j \in 1..Width(img) |->
                     PixelPoints(us[i][j], vs[i][j], dist[i][j], Rt, range)])
    IN  IF InTable(img, us)
        THEN [ok |-> TRUE, points |-> Flatten([i \in 1..Height(img) |-> Row(i)])]
        ELSE [ok |-> FALSE, points |-> <<>>]

----------------------------------------------------------------------------
(* File names.  A base name is a sequence of tokens: "x.obj.pgm" is       *)
(* <<"x", ".obj", ".pgm">>.                                                *)

Extensions == {".pgm", ".obj", ".txt"}

\* the code points of the first characters order the tokens: '.' < digits < letters
TokenRank(t) ==
    CASE t = ".obj" -> 1 [] t = ".pgm" -> 2 [] t = ".txt" -> 3
      [] t = "10" -> 4 [] t = "20" -> 5 [] t = "30" -> 6
      [] t = "_v2" -> 7 [] t = "notes" -> 8 [] t = "x" -> 9

RECURSIVE NameLess(_, _)
NameLess(a, b) ==
    IF a = <<>> THEN b # <<>>
    ELSE IF b = <<>> THEN FALSE
    ELSE IF Head(a) = Head(b) THEN NameLess(Tail(a), Tail(b))
    ELSE TokenRank(Head(a)) < TokenRank(Head(b))

\* sorted(): the names of a set in lexicographic order
RECURSIVE sorted(_)
sorted(S) ==
    IF S = {} THEN <<>>
    ELSE LET m == CHOOSE a \in S : \A b \in S \ {a} : NameLess(a, b)
         IN  <<m>> \o sorted(S \ {m})

\* glob("*pgm"): the names that end in "pgm"
glob_pgm(folder) == {n \in folder : n # <<>> /\ n[Len(n)] = ".pgm"}

\* os.path.splitext(...)[0]: the name without its last extension
Stem(name) ==
    IF name # <<>> /\ name[Len(name)] \in Extensions
    THEN SubSeq(name, 1, Len(name) - 1) ELSE name

\* int(...) of a stem: defined for the purely numeric stems only
IsNumeric(stem) == Len(stem) = 1 /\ stem[1] \in {"10", "20", "30"}
IntOf(stem) == CASE stem[1] = "10" -> 10 [] stem[1] = "20" -> 20 [] stem[1] = "30" -> 30

\* line 161: basename.replace(".pgm", f"{output_suffix}.obj"), every occurrence
ReplacePgm(name, output_suffix) ==
    Flatten([n \in 1..Len(name) |->
        IF name[n] = ".pgm" THEN output_suffix \o <<".obj">> ELSE <<name[n]>>])

\* line 158: "_" + suffix when the suffix is not empty
OutputSuffix(suffix) == IF suffix = "" THEN <<>> ELSE <<"_v2">>

\* lines 159-162: pcloud_output_path
OutputPath(cam, name, suffix) ==
    [dir |-> cam, name |-> ReplacePgm(name, OutputSuffix(suffix))]

\* lines 229-230: the merged file, beside the output folder
MergedPath(cam) == [dir |-> "", name |-> <<cam, ".obj">>]

----------------------------------------------------------------------------
(* Lines 111-116: get_cam2world *)

\* np.linalg.inv of a rigid world2cam: the transpose, and -R^T t
Inverse(world2cam) ==
    [none |-> FALSE, R |-> Transpose(world2cam.R),
     t |-> [r \in 1..3 |-> 0 - MatVec(Transpose(world2cam.R), world2cam.t)[r]]]

\* mutant of line 112: a name that is not a number is taken as having no pose
get_cam2world_lenient(name, poses) ==
    IF ~IsNumeric(Stem(name)) THEN [ok |-> TRUE, pose |-> NoPose]
    ELSE IF IntOf(Stem(name)) \notin DOMAIN poses THEN [ok |-> TRUE, pose |-> NoPose]
    ELSE [ok |-> TRUE, pose |-> Inverse(poses[IntOf(Stem(name))])]

get_cam2world(name, poses) ==
    IF ~IsNumeric(Stem(name)) THEN [ok |-> FALSE, pose |-> NoPose]
    ELSE IF IntOf(Stem(name)) \notin DOMAIN poses THEN [ok |-> TRUE, pose |-> NoPose]
    ELSE [ok |-> TRUE, pose |-> Inverse(poses[IntOf(Stem(name))])]

----------------------------------------------------------------------------
(* The workspace: the recorded frames, the projection files and the pose  *)
(* tables the program reads.  They are inputs and never change.            *)

Cameras == {"short_throw_depth", "long_throw_depth"}

\* the 16-bit sample the sensor stores for a distance in millimetres
Raw(mm) == ByteSwap16(mm)

CamFolder(cam) ==
    IF cam = "long_throw_depth"
    THEN {<<"10", ".pgm">>, <<"x", ".obj", ".pgm">>, <<"x", ".pgm", ".pgm">>,
          <<"notes", ".txt">>}
    ELSE {<<"20", ".pgm">>, <<"30", ".pgm">>}

\* cv2.imread(path, -1): rows of raw samples
imread(cam, name) ==
    CASE name = <<"10", ".pgm">> -> <<<<Raw(1500), Raw(4000)>>>>
      [] name = <<"x", ".obj", ".pgm">> -> <<<<Raw(999), Raw(2500)>>>>
      [] name = <<"x", ".pgm", ".pgm">> -> <<<<Raw(1000)>>>>
      [] name = <<"20", ".pgm">> -> <<<<Raw(20)>>, <<Raw(500)>>>>
      [] name = <<"30", ".pgm">> -> <<<<Raw(19), Raw(3000)>>, <<Raw(3001), Raw(700)>>>>

\* np.fromfile(bin_path): u and v interleaved
ProjectionBin(cam) ==
    IF cam = "long_throw_depth" THEN <<Num(0), Num(0), Num(2), Num(2)>>
    ELSE <<Num(0), Num(2), Inf, Num(0)>>

Rot90 == <<<<0, -1, 0>>, <<1, 0, 0>>, <<0, 0, 1>>>>

\* read_sensor_poses(csv): timestamp -> world2cam
read_sensor_poses(cam) ==
    IF cam = "long_throw_depth"
    THEN (10 :> [R |-> Rot90, t |-> <<100000, 0, 50000>>])
    ELSE (30 :> [R |-> Eye3, t |-> <<0, 20000, 0>>])

----------------------------------------------------------------------------
(* Lines 186-211: parse_args.  The command lines the model explores.      *)

CommandLines ==
    [short_throw : BOOLEAN, long_throw : BOOLEAN, ignore_sensor_poses : BOOLEAN,
     start_frame : -1..MaxStart, max_num_frames : -1..MaxCount,
     merge_points : BOOLEAN, use_cache : BOOLEAN, overwrite : BOOLEAN,
     output_suffix : {"", "v2"}]

\* lines 202-205: neither camera selected
NoCamera(a) == (~a.short_throw) /\ (~a.long_throw)

\* mutant of lines 217-220: the first assignment wins
SelectCamera_firstWins(a) ==
    IF a.short_throw THEN "short_throw_depth" ELSE "long_throw_depth"

\* lines 217-220: the second assignment wins
SelectCamera(a) ==
    IF a.long_throw THEN "long_throw_depth" ELSE "short_throw_depth"

----------------------------------------------------------------------------
(* Lines 145-149: the frames of the window *)

Min(a, b) == IF a < b THEN a ELSE b
Max(a, b) == IF a > b THEN a ELSE b

\* mutant of line 149: the end of the slice is taken as included
PySlice_inclusive(seq, lo, hi) ==
    LET n == Len(seq)
        l == IF lo < 0 THEN Max(lo + n, 0) ELSE Min(lo, n)
        h == IF hi < 0 THEN Max(hi + 1 + n, 0) ELSE Min(hi + 1, n)
    IN  SubSeq(seq, l + 1, h)

\* Python's seq[lo:hi]: negative indices count from the end, both are clamped
PySlice(seq, lo, hi) ==
    LET n == Len(seq)
        l == IF lo < 0 THEN Max(lo + n, 0) ELSE Min(lo, n)
        h == IF hi < 0 THEN Max(hi + n, 0) ELSE Min(hi, n)
    IN  SubSeq(seq, l + 1, h)

\* lines 147-148
EffectiveMaxNumFrames(max_num_frames, n) ==
    IF max_num_frames = -1 THEN n ELSE max_num_frames

\* lines 146-149
Window(folder, start_frame, max_num_frames) ==
    LET all == sorted(glob_pgm(folder))
        m == EffectiveMaxNumFrames(max_num_frames, Len(all))
    IN  PySlice(all, start_frame, start_frame + m)

\* line 143
DepthRangeOf(cam) ==
    IF cam = "long_throw_depth" THEN LONG_THROW_RANGE ELSE SHORT_THROW_RANGE

----------------------------------------------------------------------------
(* The decisions of one frame, lines 166-181 *)

\* mutants of line 168: the flag is not looked at; the flag is read inverted
CacheHit_ignoresFlag(output_file_exist, use_cache) == output_file_exist
CacheHit_inverted(output_file_exist, use_cache) == output_file_exist /\ ~use_cache

\* line 168
CacheHit(output_file_exist, use_cache) == output_file_exist /\ use_cache

\* mutant of line 180: the file is written whatever was there
ShouldWrite_always(output_file_exist, overwrite) == TRUE

\* line 180
ShouldWrite(output_file_exist, overwrite) == (~output_file_exist) \/ overwrite

\* mutant of line 178: the buffer is replaced instead of extended
Accumulate_replace(merge_points, merged, points) ==
    IF merge_points THEN points ELSE merged

\* lines 177-178
Accumulate(merge_points, merged, points) ==
    IF merge_points THEN merged \o points ELSE merged

\* mutant of line 172: the table is parsed for every fresh frame
NeedTable_always(t) == TRUE

\* line 172
NeedTable(t) == ~t.built

\* open(path, 'w') and the writes of save_obj
WriteFile(files, path, lines) ==
    [q \in DOMAIN files \cup {path} |-> IF q = path THEN lines ELSE files[q]]

----------------------------------------------------------------------------
(* The program *)

NoFrame ==
    [name |-> <<>>, out |-> [dir |-> "", name |-> <<>>], exist |-> FALSE,
     points |-> <<>>, ops |-> {}]

NoPoses == [none |-> TRUE, poses |-> <<>>]

NoCall == [called |-> FALSE, img |-> <<>>, us |-> <<>>, vs |-> <<>>,
           cam2world |-> NoPose, range |-> <<0, 0>>, ok |-> FALSE, out |-> <<>>]

\* a step of the run: the frame's locals after it, the disk and the ray table
Event(step, i, f, disk, tbl) ==
    [step |-> step, i |-> i, f |-> f, disk |-> disk, tbl |-> tbl]

\* mutant of lines 177-181: the file is written before the buffer is extended
AfterStep_writeFirst(step) ==
    CASE step = "resolve" -> "write"
      [] step = "write" -> "accumulate"
      [] step = "accumulate" -> "loop"

\* lines 166-181: the statement that follows each statement of the loop body
AfterStep(step) ==
    CASE step = "resolve" -> "accumulate"
      [] step = "accumulate" -> "write"
      [] step = "write" -> "loop"

\* the memory of a process that has not called process_folder
Fresh(a, at) ==
    /\ argv' = a
    /\ args' = a
    /\ pc' = at
    /\ camera' = ""
    /\ sensor_poses' = NoPoses
    /\ depth_range' = <<0, 0>>
    /\ depth_paths' = <<>>
    /\ i_path' = 0
    /\ points_merged' = <<>>
    /\ table' = NoTable
    /\ frame' = NoFrame
    /\ returned' = <<>>
    /\ log' = <<>>
    /\ reads' = {}

\* the output files found before the first run: none, or a hand-edited
\* point cloud of frame 10 of the long-throw camera
ForeignLines ==
    <<HeaderLine, [tag |-> "v", nan |-> FALSE, c |-> <<10000, 20000, -30000>>],
      [tag |-> "vn", nan |-> FALSE, c |-> <<0, 0, 10000>>],
      HeaderLine, [tag |-> "v", nan |-> FALSE, c |-> <<-5, 0, 12345>>]>>

InitialDisks ==
    {<<>>, (OutputPath("long_throw_depth", <<"10", ".pgm">>, "") :> ForeignLines)}

Init ==
    /\ argv \in CommandLines
    /\ args = argv
    /\ pc = "parse_args"
    /\ camera = ""
    /\ fs \in InitialDisks
    /\ dirs = {}
    /\ sensor_poses = NoPoses
    /\ depth_range = <<0, 0>>
    /\ depth_paths = <<>>
    /\ i_path = 0
    /\ points_merged = <<>>
    /\ table = NoTable
    /\ frame = NoFrame
    /\ returned = <<>>
    /\ log = <<>>
    /\ startFs = fs
    /\ startDirs = {}
    /\ runs = 1
    /\ reads = {}
    /\ gp = NoCall

\* lines 202-205: exit() when no camera is selected
ParseArgsExit ==
    /\ pc = "parse_args"
    /\ NoCamera(args)
    /\ pc' = "exited"
    /\ UNCHANGED <<args, camera, fs, dirs, sensor_poses, depth_range, depth_paths,
                   i_path, points_merged, table, frame, returned, log, startFs,
                   startDirs, runs, reads, argv, gp>>

\* lines 214-224: main chooses the camera and calls process_folder
MainSelect ==
    /\ pc = "parse_args"
    /\ ~NoCamera(args)
    /\ camera' = SelectCamera(args)
    /\ pc' = "process_folder"
    /\ UNCHANGED <<args, fs, dirs, sensor_poses, depth_range, depth_paths,
                   i_path, points_merged, table, frame, returned, log, startFs,
                   startDirs, runs, reads, argv, gp>>

\* lines 119-156: process_folder up to the loop
ProcessFolderSetup ==
    /\ pc = "process_folder"
    /\ dirs' = dirs \cup {camera}
    /\ sensor_poses' =
          IF ~args.ignore_sensor_poses
          THEN [none |-> FALSE, poses |-> read_sensor_poses(camera)]
          ELSE NoPoses
    /\ depth_range' = DepthRangeOf(camera)
    /\ depth_paths' = Window(CamFolder(camera), args.start_frame, args.max_num_frames)
    /\ args' = [args EXCEPT !.max_num_frames =
                   EffectiveMaxNumFrames(@, Len(sorted(glob_pgm(CamFolder(camera)))))]
    /\ points_merged' = <<>>
    /\ table' = NoTable
    /\ i_path' = 1
    /\ reads' = reads \cup {camera}
    /\ pc' = "loop"
    /\ UNCHANGED <<camera, fs, frame, returned, log, startFs, startDirs, runs, argv, gp>>

\* lines 157-167: the next frame; its output path and whether that file exists
FrameStart ==
    /\ pc = "loop"
    /\ i_path <= Len(depth_paths)
    /\ LET out == OutputPath(camera, depth_paths[i_path], args.output_suffix)
           f == [name |-> depth_paths[i_path], out |-> out,
                 exist |-> out \in DOMAIN fs, points |-> <<>>, ops |-> {}]
       IN  /\ frame' = f
           /\ log' = Append(log, Event("Start", i_path, f, fs, table))
    /\ pc' = "resolve"
    /\ UNCHANGED <<args, camera, fs, dirs, sensor_poses, depth_range, depth_paths,
                   i_path, points_merged, table, returned, startFs, startDirs, runs, reads,
                   argv, gp>>

\* lines 168-169: the points are read from the existing output file
ReadCache ==
    /\ pc = "resolve"
    /\ CacheHit(frame.exist, args.use_cache)
    /\ LET f == [frame EXCEPT !.points = read_obj(fs[frame.out]),
                              !.ops = {"read_obj"}]
       IN  /\ frame' = f
           /\ log' = Append(log, Event("Resolved", i_path, f, fs, table))
    /\ pc' = AfterStep("resolve")
    /\ UNCHANGED <<args, camera, fs, dirs, sensor_poses, depth_range, depth_paths,
                   i_path, points_merged, table, returned, startFs, startDirs, runs, reads,
                   argv, gp>>

\* lines 171-175, as far as they run: the table after line 173, the pose of
\* line 174, the points of line 175, and the calls made
Computation(name, t, poses, range, cam) ==
    LET img == imread(cam, name)
        t2 == IF NeedTable(t)
              THEN parse_projection_bin(ProjectionBin(cam), Width(img), Height(img))
              ELSE t
        ops1 == {"imread"} \cup (IF NeedTable(t) THEN {"parse_projection_bin"} ELSE {})
        c2w == IF ~poses.none THEN get_cam2world(name, poses.poses)
               ELSE [ok |-> TRUE, pose |-> NoPose]
        ops2 == ops1 \cup (IF ~poses.none THEN {"get_cam2world"} ELSE {})
        got == get_points(img, t2.us, t2.vs, c2w.pose, range)
    IN  IF ~t2.ok THEN [ok |-> FALSE, table |-> t, points |-> <<>>, ops |-> ops1]
        ELSE IF ~c2w.ok THEN [ok |-> FALSE, table |-> t2, points |-> <<>>, ops |-> ops2]
        ELSE IF ~got.ok
             THEN [ok |-> FALSE, table |-> t2, points |-> <<>>,
                   ops |-> ops2 \cup {"get_points"}]
        ELSE [ok |-> TRUE, table |-> t2, points |-> got.points,
              ops |-> ops2 \cup {"get_points"}]

\* lines 170-175: the points are computed from the depth image
ComputeFresh ==
    /\ pc = "resolve"
    /\ ~CacheHit(frame.exist, args.use_cache)
    /\ LET r == Computation(frame.name, table, sensor_poses, depth_range, camera)
           f == [frame EXCEPT !.points = r.points, !.ops = r.ops]
       IN  /\ r.ok
           /\ table' = r.table
           /\ frame' = f
           /\ log' = Append(log, Event("Resolved", i_path, f, fs, r.table))
    /\ reads' = reads \cup {camera}
    /\ pc' = AfterStep("resolve")
    /\ UNCHANGED <<args, camera, fs, dirs, sensor_poses, depth_range, depth_paths,
                   i_path, points_merged, returned, startFs, startDirs, runs, argv, gp>>

\* lines 170-175 when reshape, int() or us[i, j] raises: the exception is
\* caught nowhere and the program ends
ComputeRaises ==
    /\ pc = "resolve"
    /\ ~CacheHit(frame.exist, args.use_cache)
    /\ LET r == Computation(frame.name, table, sensor_poses, depth_range, camera)
           f == [frame EXCEPT !.ops = r.ops]
       IN  /\ ~r.ok
           /\ table' = r.table
           /\ frame' = f
           /\ log' = Append(log, Event("Raised", i_path, f, fs, r.table))
    /\ reads' = reads \cup {camera}
    /\ pc' = "aborted"
    /\ UNCHANGED <<args, camera, fs, dirs, sensor_poses, depth_range, depth_paths,
                   i_path, points_merged, returned, startFs, startDirs, runs, argv, gp>>

\* lines 177-178: the merged buffer
FrameAccumulate ==
    /\ pc = "accumulate"
    /\ points_merged' = Accumulate(args.merge_points, points_merged, frame.points)
    /\ log' = Append(log, Event("Accumulated", i_path, frame, fs, table))
    /\ pc' = AfterStep("accumulate")
    /\ UNCHANGED <<args, camera, fs, dirs, sensor_poses, depth_range, depth_paths,
                   i_path, table, frame, returned, startFs, startDirs, runs, reads, argv, gp>>

\* lines 180-181 and the end of the iteration
FrameWrite ==
    /\ pc = "write"
    /\ LET w == ShouldWrite(frame.exist, args.overwrite)
           f == [frame EXCEPT !.ops = IF w THEN @ \cup {"save_obj"} ELSE @]
           disk == IF w THEN WriteFile(fs, frame.out, save_obj(frame.points)) ELSE fs
       IN  /\ fs' = disk
           /\ frame' = f
           /\ log' = log \o <<Event("Written", i_path, f, disk, table),
                              Event("Done", i_path, f, disk, table)>>
    /\ i_path' = i_path + 1
    /\ pc' = AfterStep("write")
    /\ UNCHANGED <<args, camera, dirs, sensor_poses, depth_range, depth_paths,
                   points_merged, table, returned, startFs, startDirs, runs, reads, argv, gp>>

\* line 183, lines 224-225: the loop is over and process_folder returns
ProcessFolderReturn ==
    /\ pc = "loop"
    /\ i_path > Len(depth_paths)
    /\ returned' = points_merged
    /\ pc' = "save"
    /\ UNCHANGED <<args, camera, fs, dirs, sensor_poses, depth_range, depth_paths,
                   i_path, points_merged, table, frame, log, startFs, startDirs, runs, reads,
                   argv, gp>>

\* lines 227-234: the merged file
MainSave ==
    /\ pc = "save"
    /\ LET disk == WriteFile(fs, MergedPath(camera), save_obj(returned))
           f == [NoFrame EXCEPT !.out = MergedPath(camera), !.points = returned,
                                !.ops = {"save_obj"}]
       IN  IF args.merge_points
           THEN /\ fs' = disk
                /\ log' = Append(log, Event("Merged", 0, f, disk, table))
           ELSE UNCHANGED <<fs, log>>
    /\ pc' = "done"
    /\ UNCHANGED <<args, camera, dirs, sensor_poses, depth_range, depth_paths,
                   i_path, points_merged, table, frame, returned, startFs, startDirs, runs,
                   reads, argv, gp>>

\* line 205, line 234 or an uncaught exception: the process ends and its
\* memory is gone; the files stay
ProcessEnds ==
    /\ pc \in {"done", "aborted", "exited"}
    /\ Fresh(argv, "ended")
    /\ UNCHANGED <<fs, dirs, startFs, startDirs, runs, gp>>

\* the command lines of a later run: the same frame window and suffix, any
\* cameras and flags
LaterCommandLines(a) ==
    {b \in CommandLines : /\ b.start_frame = a.start_frame
                          /\ b.max_num_frames = a.max_num_frames
                          /\ b.output_suffix = a.output_suffix}

\* lines 236-237: the program is run again on the same workspace
RunAgain ==
    /\ pc = "ended"
    /\ runs < MaxRuns
    /\ \E a \in LaterCommandLines(argv) : Fresh(a, "parse_args")
    /\ startFs' = fs
    /\ startDirs' = dirs
    /\ runs' = runs + 1
    /\ UNCHANGED <<fs, dirs, gp>>

Next ==
    \/ ParseArgsExit
    \/ MainSelect
    \/ ProcessFolderSetup
    \/ FrameStart
    \/ ReadCache
    \/ ComputeFresh
    \/ ComputeRaises
    \/ FrameAccumulate
    \/ FrameWrite
    \/ ProcessFolderReturn
    \/ MainSave
    \/ ProcessEnds
    \/ RunAgain

Spec == Init /\ [][Next]_vars

----------------------------------------------------------------------------
(* get_points on its own: one call on an image of up to 2 x 2 pixels.     *)
(* A pixel is drawn as the two ray components and the distance stored.     *)

GPSamples ==
    {<<Num(0), Num(0), d>> : d \in {19, 20, 3000, 3001, 999, 1000, 4000, 4001}}
    \cup {<<Inf, Num(0), 2000>>, <<Num(0), Inf, 2000>>, <<NaN, Num(0), 2000>>,
          <<Num(2), NaN, 2000>>, <<Num(2), Num(2), 2500>>}

GPShapes == {<<0, 0>>, <<1, 2>>, <<2, 1>>, <<2, 2>>}

GPPoses == {NoPose, Inverse([R |-> Rot90, t |-> <<100000, 0, 50000>>])}

\* the call on the image whose pixel (i, j) is the sample px[<<i, j>>]
GPCall(sh, px, c, r) ==
    [called |-> FALSE,
     img |-> [i \in 1..sh[1] |-> [j \in 1..sh[2] |-> Raw(px[<<i, j>>][3])]],
     us |-> [i \in 1..sh[1] |-> [j \in 1..sh[2] |-> px[<<i, j>>][1]]],
     vs |-> [i \in 1..sh[1] |-> [j \in 1..sh[2] |-> px[<<i, j>>][2]]],
     cam2world |-> c, range |-> r, ok |-> FALSE, out |-> <<>>]

InitGetPoints ==
    /\ \E sh \in GPShapes :
       \E px \in [(1..sh[1]) \X (1..sh[2]) -> GPSamples] :
       \E c \in GPPoses :
       \E r \in {SHORT_THROW_RANGE, LONG_THROW_RANGE} :
          gp = GPCall(sh, px, c, r)
    /\ argv = [short_throw |-> FALSE, long_throw |-> FALSE,
               ignore_sensor_poses |-> FALSE, start_frame |-> 0,
               max_num_frames |-> -1, merge_points |-> FALSE,
               use_cache |-> FALSE, overwrite |-> FALSE, output_suffix |-> ""]
    /\ args = argv
    /\ pc = "ended"
    /\ camera = ""
    /\ fs = <<>>
    /\ dirs = {}
    /\ sensor_poses = NoPoses
    /\ depth_range = <<0, 0>>
    /\ depth_paths = <<>>
    /\ i_path = 0
    /\ points_merged = <<>>
    /\ table = NoTable
    /\ frame = NoFrame
    /\ returned = <<>>
    /\ log = <<>>
    /\ startFs = <<>>
    /\ startDirs = {}
    /\ runs = MaxRuns
    /\ reads = {}

\* lines 75-108: the call
CallGetPoints ==
    /\ ~gp.called
    /\ LET r == get_points(gp.img, gp.us, gp.vs, gp.cam2world, gp.range)
       IN  gp' = [gp EXCEPT !.called = TRUE, !.ok = r.ok, !.out = r.points]
    /\ UNCHANGED <<args, pc, camera, fs, dirs, sensor_poses, depth_range,
                   depth_paths, i_path, points_merged, table, frame, returned, log,
                   startFs, startDirs, runs, reads, argv>>

NextGetPoints == CallGetPoints

SpecGetPoints == InitGetPoints /\ [][NextGetPoints]_vars

----------------------------------------------------------------------------
(* Reading the history of a run *)

Steps(step) == {k \in DOMAIN log : log[k].step = step}

\* the Start step of the frame that step k belongs to
StartOf(k) == CHOOSE j \in Steps("Start") : log[j].i = log[k].i

\* whether the frame's output file was on disk when the frame started
ExistedAtStart(k) == log[k].f.out \in DOMAIN log[StartOf(k)].disk

Computing == {"imread", "parse_projection_bin", "get_cam2world", "get_points"}

PerFrameFile(p) == p.dir \in Cameras

Running == pc \notin {"parse_args", "process_folder", "exited", "ended"}

----------------------------------------------------------------------------
(* C1: a frame's output file is written if and only if it did not exist   *)
(* when the frame started or overwrite is set; without overwrite no       *)
(* per-frame file that exists is ever modified, cache hit or not.          *)
C1_WriteIffAbsentOrOverwrite ==
    /\ \A k \in Steps("Written") :
          LET e == log[k]
              before == log[StartOf(k)].disk
              wrote == "save_obj" \in e.f.ops
          IN  /\ wrote <=> ((~ExistedAtStart(k)) \/ args.overwrite)
              /\ wrote => e.disk = WriteFile(before, e.f.out, save_obj(e.f.points))
              /\ (~wrote) => e.disk = before
    /\ (Running /\ ~args.overwrite) =>
          \A p \in DOMAIN startFs :
              PerFrameFile(p) => (p \in DOMAIN fs /\ fs[p] = startFs[p])

\* a recomputed frame whose file existed, left alone because overwrite is off
C1_Witness ==
    \E k \in Steps("Written") :
        /\ ExistedAtStart(k)
        /\ ~args.overwrite
        /\ "get_points" \in log[k].f.ops
        /\ log[k].f.points # read_obj(fs[log[k].f.out])

----------------------------------------------------------------------------

PoseFor(name) ==
    IF sensor_poses.none THEN NoPose ELSE get_cam2world(name, sensor_poses.poses).pose

(* C2: the points of a frame are read from its output file exactly when   *)
(* the file exists and use_cache is set, and then nothing is decoded,     *)
(* parsed, looked up or unprojected; otherwise they are what get_points    *)
(* computes from the depth image.                                          *)
C2_CacheExactly ==
    \A k \in Steps("Resolved") \cup Steps("Raised") :
        LET e == log[k]
            before == log[StartOf(k)].disk
            hit == "read_obj" \in e.f.ops
        IN  /\ hit <=> (ExistedAtStart(k) /\ args.use_cache)
            /\ hit => /\ e.step = "Resolved"
                      /\ e.f.ops \cap Computing = {}
                      /\ e.f.points = read_obj(before[e.f.out])
            /\ ((~hit) /\ e.step = "Resolved") =>
                      /\ {"imread", "get_points"} \subseteq e.f.ops
                      /\ e.f.points =
                            get_points(imread(camera, e.f.name), e.tbl.us, e.tbl.vs,
                                       PoseFor(e.f.name), depth_range).points

\* a cache hit whose points differ from what get_points would compute
C2_Witness ==
    \E k \in Steps("Resolved") :
        /\ "read_obj" \in log[k].f.ops
        /\ table.built
        /\ log[k].f.points #
              get_points(imread(camera, log[k].f.name), table.us, table.vs,
                         PoseFor(log[k].f.name), depth_range).points

----------------------------------------------------------------------------
(* C3: in a run with use_cache and without overwrite, every frame whose   *)
(* output file was on disk when the run started is a cache hit, nothing   *)
(* is computed for it, and the per-frame files found at the start stay    *)
(* as they were; only frames without an output file are computed and      *)
(* written.                                                                *)
C3_RerunCached ==
    (Running /\ args.use_cache /\ ~args.overwrite) =>
        /\ \A p \in DOMAIN startFs :
              PerFrameFile(p) => (p \in DOMAIN fs /\ fs[p] = startFs[p])
        /\ \A k \in DOMAIN log :
              log[k].step \in {"Resolved", "Raised", "Accumulated", "Written", "Done"} =>
                 LET ops == log[k].f.ops
                 IN  /\ log[k].f.out \in DOMAIN startFs => ops = {"read_obj"}
                     /\ (ops \cap (Computing \cup {"save_obj"}) # {}) =>
                            ~ExistedAtStart(k)
                     /\ (log[k].step = "Done" /\ "get_points" \in ops) =>
                            "save_obj" \in ops

\* the second run finds the file of the first frame, left by a first run that
\* did not finish the window, and computes and writes the second frame
C3_Witness ==
    /\ runs = 2
    /\ pc = "done"
    /\ args.use_cache /\ ~args.overwrite
    /\ camera = "long_throw_depth"
    /\ startFs # <<>>
    /\ \A p \in DOMAIN startFs : startFs[p] # ForeignLines
    /\ \E j, k \in Steps("Done") :
          /\ log[j].f.out \in DOMAIN startFs
          /\ log[j].f.ops = {"read_obj"}
          /\ log[k].f.out \notin DOMAIN startFs
          /\ {"get_points", "save_obj"} \subseteq log[k].f.ops

----------------------------------------------------------------------------

ResolvedPoints(i) ==
    log[CHOOSE k \in Steps("Resolved") : log[k].i = i].f.points

AccumulatedFrames == {log[k].i : k \in Steps("Accumulated")}

MergedUntouched ==
    \A c \in Cameras :
        /\ MergedPath(c) \in DOMAIN fs <=> MergedPath(c) \in DOMAIN startFs
        /\ MergedPath(c) \in DOMAIN fs => fs[MergedPath(c)] = startFs[MergedPath(c)]

(* C4: with merge_points the merged buffer is the concatenation, in       *)
(* processing order, of the points of every frame of the window, each     *)
(* once, cache hit or not, written or not, and main writes it once to the *)
(* merged file; without merge_points the buffer stays empty and no merged *)
(* file is written.                                                        *)
C4_MergedIsConcatenation ==
    Running =>
        /\ args.merge_points =>
              /\ AccumulatedFrames = 1..Cardinality(AccumulatedFrames)
              /\ points_merged =
                    Flatten([i \in 1..Cardinality(AccumulatedFrames) |-> ResolvedPoints(i)])
              /\ pc \in {"save", "done"} =>
                    /\ Cardinality(AccumulatedFrames) = Len(depth_paths)
                    /\ returned = points_merged
              /\ pc = "done" =>
                    /\ Cardinality(Steps("Merged")) = 1
                    /\ fs[MergedPath(camera)] = save_obj(returned)
              /\ pc # "done" => Steps("Merged") = {}
        /\ (~args.merge_points) =>
              /\ points_merged = <<>>
              /\ returned = <<>>
              /\ Steps("Merged") = {}
              /\ MergedUntouched

\* a merged file of a cache hit that was not written and a fresh frame that was
C4_Witness ==
    /\ pc = "done"
    /\ args.merge_points
    /\ \E j, k \in Steps("Done") :
          /\ log[j].f.ops = {"read_obj"}
          /\ log[j].f.points # <<>>
          /\ {"get_points", "save_obj"} \subseteq log[k].f.ops
          /\ log[k].f.points # <<>>
    /\ Len(fs[MergedPath(camera)]) > 2

----------------------------------------------------------------------------

GPPixels == {<<i, j>> : i \in 1..Height(gp.img), j \in 1..Width(gp.img)}

GPDecoded(p) == ByteSwap16(gp.img[p[1]][p[2]])

GPInRange(p) == gp.range[1] <= GPDecoded(p) /\ GPDecoded(p) <= gp.range[2]

GPKept(p) ==
    /\ gp.us[p[1]][p[2]].k # "inf"
    /\ gp.vs[p[1]][p[2]].k # "inf"
    /\ GPInRange(p)

RowMajorBefore(q, p) == q[1] < p[1] \/ (q[1] = p[1] /\ q[2] < p[2])

GPExpected(p) ==
    ToWorld(PoseRt(gp.cam2world),
            CameraPoint(gp.us[p[1]][p[2]], gp.vs[p[1]][p[2]], GPDecoded(p)))

(* C5, as amended: get_points emits exactly one point for a pixel if and  *)
(* only if neither ray component is infinite and the decoded distance D   *)
(* lies in the closed interval [range.min, range.max]; a nan component    *)
(* does not exclude the pixel.  The points come in row-major pixel order, *)
(* and an image without such a pixel gives the empty cloud.                *)
C5_OnePointPerKeptPixel ==
    gp.called =>
        /\ gp.ok
        /\ Len(gp.out) = Cardinality({p \in GPPixels : GPKept(p)})
        /\ \A p \in GPPixels :
              GPKept(p) =>
                 gp.out[1 + Cardinality({q \in GPPixels :
                                           GPKept(q) /\ RowMajorBefore(q, p)})]
                    = GPExpected(p)

\* a 2 x 2 image with a pixel at each end of the interval, one outside it and
\* one whose ray is nan, which is emitted
C5_Witness ==
    /\ gp.called
    /\ Height(gp.img) = 2 /\ Width(gp.img) = 2
    /\ Len(gp.out) = 3
    /\ gp.out[3].nan
    /\ \E p, q, r \in GPPixels :
          /\ GPDecoded(p) = gp.range[1]
          /\ GPDecoded(q) = gp.range[2]
          /\ GPDecoded(r) > gp.range[2]

\* every pixel is filtered out: the empty cloud
C5_WitnessEmpty ==
    /\ gp.called /\ gp.ok
    /\ GPPixels # {}
    /\ gp.out = <<>>

\* C5 as stated: a point if and only if both ray components are finite and D
\* is in the interval
C5_Original ==
    gp.called =>
        Len(gp.out) =
            Cardinality({p \in GPPixels :
                            /\ gp.us[p[1]][p[2]].k = "num"
                            /\ gp.vs[p[1]][p[2]].k = "num"
                            /\ GPInRange(p)})

----------------------------------------------------------------------------

PgmNames(cam) == {n \in CamFolder(cam) : n[Len(n)] = ".pgm"}

\* the 0-based index of a name in the sorted list
IndexOf(n, cam) == Cardinality({m \in PgmNames(cam) : NameLess(m, n)})

InWindow(n, cam) ==
    /\ IndexOf(n, cam) >= argv.start_frame
    /\ (argv.max_num_frames = -1
           \/ IndexOf(n, cam) < argv.start_frame + argv.max_num_frames)

StartedNames == [k \in 1..Cardinality(Steps("Start")) |->
                    log[CHOOSE j \in Steps("Start") : log[j].i = k].f.name]

(* C6: the frames are processed in lexicographic order of their paths,    *)
(* and they are those whose index in the sorted list lies in              *)
(* [start_frame, start_frame + max_num_frames), for start_frame >= 0 and  *)
(* max_num_frames >= 0; max_num_frames = -1 takes all from start_frame,   *)
(* and a start_frame at or past the end takes none.                        *)
C6_Window ==
    (Running /\ argv.start_frame >= 0) =>
        /\ {depth_paths[k] : k \in DOMAIN depth_paths}
              = {n \in PgmNames(camera) : InWindow(n, camera)}
        /\ \A a, b \in DOMAIN depth_paths :
              a < b => NameLess(depth_paths[a], depth_paths[b])
        /\ {log[j].i : j \in Steps("Start")} = 1..Cardinality(Steps("Start"))
        /\ StartedNames = SubSeq(depth_paths, 1, Cardinality(Steps("Start")))
        /\ pc \in {"save", "done"} => Len(StartedNames) = Len(depth_paths)
        /\ argv.start_frame >= Cardinality(PgmNames(camera)) => depth_paths = <<>>

\* the window [1, 3) of three frames, processed to the end
C6_Witness ==
    /\ pc = "done"
    /\ argv.start_frame = 1 /\ argv.max_num_frames = 2
    /\ Len(StartedNames) = 2
    /\ StartedNames[1] = <<"x", ".obj", ".pgm">>

\* all remaining frames, and a start past the end
C6_WitnessAll ==
    /\ pc = "done"
    /\ argv.start_frame = 1 /\ argv.max_num_frames = -1
    /\ Len(StartedNames) = 2

----------------------------------------------------------------------------

NonNumericComputed(k) ==
    /\ log[k].step \in {"Resolved", "Raised"}
    /\ ~sensor_poses.none
    /\ ~IsNumeric(Stem(log[k].f.name))
    /\ "imread" \in log[k].f.ops

\* the exception comes from the timestamp, not from the ray table
TimestampRaised(k) ==
    /\ NonNumericComputed(k)
    /\ log[k].step = "Raised"
    /\ "get_cam2world" \in log[k].f.ops

(* C7, as amended: with poses in use, a frame that must be computed and   *)
(* whose base name is not a number makes int() raise in get_cam2world     *)
(* (unless the ray table already failed to parse): get_points is not      *)
(* called, no points are produced, nothing is added to the merged buffer  *)
(* or written for that frame, and the run ends there.                      *)
C7_NonNumericAborts ==
    \A k \in DOMAIN log :
        NonNumericComputed(k) =>
            /\ log[k].step = "Raised"
            /\ "get_points" \notin log[k].f.ops
            /\ log[k].f.points = <<>>
            /\ k = Len(log)
            /\ pc = "aborted"
            /\ fs = log[StartOf(k)].disk
            /\ log[k].i \notin AccumulatedFrames

C7_Witness ==
    /\ pc = "aborted"
    /\ TimestampRaised(Len(log))
    /\ log[Len(log)].tbl.built
    /\ Steps("Done") # {}

\* C7 as stated: such a frame does not abort the run
C7_Original ==
    \A k \in DOMAIN log : ~TimestampRaised(k)

----------------------------------------------------------------------------

Follows(a, b) ==
    \/ a.step = "Start" /\ b.step \in {"Resolved", "Raised"} /\ b.i = a.i
    \/ a.step = "Resolved" /\ b.step = "Accumulated" /\ b.i = a.i
    \/ a.step = "Accumulated" /\ b.step = "Written" /\ b.i = a.i
    \/ a.step = "Written" /\ b.step = "Done" /\ b.i = a.i
    \/ a.step = "Done" /\ b.step = "Start" /\ b.i = a.i + 1
    \/ a.step = "Done" /\ b.step = "Merged"

(* C8, as amended: the steps of a frame are Start, Resolved, Accumulated, *)
(* Written, Done in this order: the merged buffer is extended before the  *)
(* output file is written, and a frame is Done before the next starts.     *)
C8_StepOrder ==
    /\ log # <<>> =>
          \/ log[1].step = "Start" /\ log[1].i = 1
          \/ log[1].step = "Merged" /\ Len(log) = 1
    /\ \A k \in 1..(Len(log) - 1) : Follows(log[k], log[k + 1])

C8_Witness ==
    \E j \in Steps("Written"), k \in Steps("Start") :
        /\ log[j].i = 1
        /\ log[k].i = 2
        /\ "save_obj" \in log[j].f.ops
        /\ points_merged # <<>>

\* C8 as stated: a frame's file is written before its points are accumulated
C8_Original ==
    \A j \in Steps("Written"), k \in Steps("Accumulated") :
        log[j].i = log[k].i => j < k

----------------------------------------------------------------------------

FreshFrames == {log[k].i : k \in {j \in Steps("Resolved") \cup Steps("Raised") :
                                     "imread" \in log[j].f.ops}}

ParsingFrames == {log[k].i : k \in {j \in Steps("Resolved") \cup Steps("Raised") :
                                       "parse_projection_bin" \in log[j].f.ops}}

FirstFresh == CHOOSE i \in FreshFrames : \A j \in FreshFrames : i <= j

FirstFreshImage == imread(camera, depth_paths[FirstFresh])

FirstTable ==
    parse_projection_bin(ProjectionBin(camera), Width(FirstFreshImage),
                         Height(FirstFreshImage))

(* C9: in one run the ray table is parsed at most once: at the first      *)
(* frame computed fresh, from that frame's width and height; it never     *)
(* changes afterwards and every later fresh frame uses it; it is never    *)
(* parsed when every frame is a cache hit.                                 *)
C9_TableParsedOnce ==
    Running =>
        /\ Cardinality(ParsingFrames) <= 1
        /\ FreshFrames = {} => (ParsingFrames = {} /\ ~table.built)
        /\ FreshFrames # {} =>
              /\ ParsingFrames = {FirstFresh}
              /\ table.built => table = FirstTable
              /\ \A k \in DOMAIN log :
                    (log[k].i >= FirstFresh /\ log[k].step # "Start"
                        /\ log[k].step # "Merged" /\ FirstTable.ok)
                       => log[k].tbl = FirstTable
              /\ \A k \in Steps("Resolved") :
                    "get_points" \in log[k].f.ops =>
                       log[k].f.points =
                          get_points(imread(camera, log[k].f.name), FirstTable.us,
                                     FirstTable.vs, PoseFor(log[k].f.name),
                                     depth_range).points

\* the table is built at the second frame, after a cache hit, and the third
\* frame, of another size, is computed with it
C9_Witness ==
    /\ FreshFrames = {2, 3}
    /\ Steps("Done") # {}
    /\ \E k \in Steps("Resolved") :
          /\ log[k].i = 3
          /\ Width(imread(camera, log[k].f.name)) # table.w
          /\ log[k].f.points # <<>>

\* every frame is a cache hit
C9_WitnessAllCached ==
    /\ pc = "done"
    /\ Len(depth_paths) >= 2
    /\ FreshFrames = {}

----------------------------------------------------------------------------

ShortFile(p) ==
    p.dir = "short_throw_depth" \/ p = MergedPath("short_throw_depth")

Changed(p) == p \notin DOMAIN startFs \/ fs[p] # startFs[p]

====
